---- MODULE Spec2Model ----
(***************************************************************************)
(* A model of pypm's Population (src/src/Population.py): the state of one  *)
(* Population object and the operations that change it.                    *)
(*                                                                         *)
(* Numbers.  Population values are Python numbers (reals in expectation    *)
(* mode, counts in data mode).  They are modelled in exact fixed point: a  *)
(* value q of the model stands for q / Unit.  A scale argument s stands    *)
(* for s / SDen, a delay mass m for m / MDen and a probability p for       *)
(* p / PDen, so that scale * mass is the integer s * m in value units.     *)
(* Floating-point rounding is outside the model.                           *)
(***************************************************************************)
EXTENDS Integers, Sequences, FiniteSets, TLC

VARIABLES
    history,            \* self.history
    future,             \* self.future
    missed_yesterday,   \* self.missed_yesterday
    initial_value,      \* self.initial_value: [kind, value]; a Parameter's value is its current one
    report_noise,       \* self.report_noise
    report_noise_par,   \* self.report_noise_par: [kind, value]
    monotonic,          \* self.monotonic
    constructed,        \* the constructor returned an object
    err,                \* the exception that ended the last call ("none" if it returned)
    op,                 \* the last call: its name and arguments; value is also the
                        \* next_value of a do_time_step that returned and, for
                        \* reset, history[0] as it was set before the reset
    steps,              \* do_time_step calls that returned since construction / reset
    ndep,               \* deposits that returned since construction / reset
    sched,              \* sched[t]: total deposited so far for the t-th do_time_step since
                        \* construction / reset, for the steps still to come
    deposited,          \* total of all amounts deposited since construction / reset
    start,              \* history[0] as set by construction / the last reset
    clamped,            \* the clamp at zero has fired since construction / reset
    nscale,             \* calls of scale_history / scale_future since construction / reset
    twin,               \* a second run kept for comparison with this one: the history,
                        \* future and missed_yesterday of a Population driven by the
                        \* same calls (the specifications below say which)
    log,                \* the calls of a run that is to be repeated
    model               \* a Model that owns Populations of its own: its registries,
                        \* its day and its place in the step of the day (see below)

vars == <<history, future, missed_yesterday, initial_value, report_noise,
          report_noise_par, monotonic, constructed, err, op, steps, ndep,
          sched, deposited, start, clamped, nscale, twin, log, model>>

pop == <<history, future, missed_yesterday>>
config == <<initial_value, report_noise, report_noise_par, monotonic, constructed>>

(***************************************************************************)
(* Bounds of the model.                                                    *)
(***************************************************************************)
MaxSteps == 3
MaxDeposits == 2
SDen == 2
MDen == 2
PDen == 2
MaxScalings == 1

Unit == SDen * MDen

\* delay.future_expectations of the Delay objects used: non-negative, unit sum
Delays == { <<MDen>>, <<1, MDen - 1>> }
ExpScales == { -SDen, 1 }
DataScales == { -SDen - 1, 2 * SDen - 1, 2 * SDen }
FastValues == { -Unit, Unit }
\* literal initial values, and the values of an initial-value Parameter
InitialNumbers == { 0 }
ParameterValues == { 0, Unit }
\* the report-noise Parameter is bounded to [0, 1]
NoiseValues == { 0, PDen }
\* the factors of scale_history / scale_future: 1/SDen, 1 and 1 + 1/SDen
ScaleFactors == { 1, SDen, SDen + 1 }

MaxDelayLen == CHOOSE n \in 1..8 : /\ \E d \in Delays : Len(d) = n
                                   /\ \A d \in Delays : Len(d) <= n
SchedLen == MaxSteps + MaxDelayLen

(***************************************************************************)
(* Helpers                                                                 *)
(***************************************************************************)
Last(s) == s[Len(s)]
Max(a, b) == IF a >= b THEN a ELSE b

RECURSIVE SumSeq(_)
SumSeq(s) == IF Len(s) = 0 THEN 0 ELSE s[1] + SumSeq(Tail(s))

Abs(a) == IF a >= 0 THEN a ELSE -a

NoOp == [name |-> "__init__", expectations |-> TRUE, scale |-> 0,
         delay |-> <<>>, value |-> 0, keywords |-> {}]
Call(n) == [NoOp EXCEPT !.name = n]

NoSched == [t \in 1..SchedLen |-> 0]

\* Python 3's round(x) for x = s / SDen: to nearest, ties to even
PyRound(s) ==
    LET q == (2 * s + SDen) \div (2 * SDen)
        tie == (2 * s + SDen) % (2 * SDen) = 0
    IN  IF tie /\ q % 2 # 0 THEN q - 1 ELSE q

\* mutant: rounds down instead of to nearest
RoundRatio_Floor(n, d) == n \div d

\* Python 3's round(x) for x = n / d, d > 0: to nearest, ties to even
RoundRatio(n, d) ==
    LET fl == n \div d
        r == n % d
    IN  IF 2 * r < d THEN fl
        ELSE IF 2 * r > d THEN fl + 1
        ELSE IF fl % 2 = 0 THEN fl ELSE fl + 1

\* mutant: the total is rounded to nearest instead of truncated
PyInt_Nearest(s) == PyRound(s)

\* Python's int(x) for x = s / SDen: truncation toward zero
PyInt(s) == IF s >= 0 THEN s \div SDen ELSE -((-s) \div SDen)

(***************************************************************************)
(* Construction: Population.__init__                                       *)
(***************************************************************************)
InitialValueArgs ==
    [kind : {"number"}, value : InitialNumbers]
        \cup [kind : {"Parameter"}, value : ParameterValues]
        \cup { [kind |-> "other", value |-> 0] }
NoiseParArgs ==
    { [kind |-> "None", value |-> 0], [kind |-> "other", value |-> 0] }
        \cup [kind : {"Parameter"}, value : NoiseValues]

\* Parameter.get_value(): the Parameter's current value
get_value(par) == par.value

\* mutant: the report-noise Parameter is not checked
InitError_InitialValueOnly(iv, rn, rnp) ==
    IF iv.kind \notin {"number", "Parameter"} THEN "TypeError" ELSE "none"

\* the exception __init__ raises for these arguments, "none" if it returns
InitError(iv, rn, rnp) ==
    IF iv.kind \notin {"number", "Parameter"} THEN "TypeError"
    ELSE IF rn /\ rnp.kind # "Parameter" THEN "TypeError"
    ELSE "none"

\* the parameters of __init__ that a call may name besides the three above
InitKeywords == {"population_name", "description", "hidden", "color", "show_sim"}

\* the exception of the call Population(..., **keywords): a keyword that is
\* not a parameter of __init__ is a TypeError raised before the body runs
CallError(iv, rn, rnp, keywords) ==
    IF ~(keywords \subseteq InitKeywords) THEN "TypeError"
    ELSE InitError(iv, rn, rnp)

\* a call of the constructor with initial_value, report_noise,
\* report_noise_par and the further keyword arguments named in keywords
Population_call(iv, rn, rnp, keywords) ==
    /\ err = CallError(iv, rn, rnp, keywords)
    /\ constructed = (err = "none")
    /\ history = IF constructed THEN << get_value(iv) >> ELSE << >>
    /\ future = << >>
    /\ initial_value = iv
    /\ monotonic = TRUE
    /\ report_noise = rn
    /\ report_noise_par = rnp
    /\ missed_yesterday = 0
    /\ op = [NoOp EXCEPT !.keywords = keywords]
    /\ steps = 0
    /\ ndep = 0
    /\ sched = NoSched
    /\ deposited = 0
    /\ start = IF constructed THEN get_value(iv) ELSE 0
    /\ clamped = FALSE
    /\ nscale = 0

\* a call that names no parameter beyond those of the signature
Population_init(iv, rn, rnp) == Population_call(iv, rn, rnp, {})

\* the constructor calls considered: a report_noise_par is passed only with
\* report_noise, and the Population with report noise has a literal initial
\* value (as 'reported' in examples/ref_model_2_4.py)
CtorCase(iv, rn, rnp) ==
    /\ (~rn => rnp.kind = "None")
    /\ (rn => iv.kind # "Parameter")

\* no Model is run
NoModel == [day |-> 0]

\* the state of the Population as a second run starts from it
Twin(h, f, m) == [history |-> h, future |-> f, missed_yesterday |-> m, cut |-> 0]

NoTwin == Twin(<< >>, << >>, 0)

\* one Population is constructed
Construct ==
    \E iv \in InitialValueArgs, rn \in BOOLEAN, rnp \in NoiseParArgs :
        /\ CtorCase(iv, rn, rnp)
        /\ Population_init(iv, rn, rnp)

Init ==
    /\ Construct
    /\ twin = NoTwin
    /\ log = << >>
    /\ model = NoModel

(***************************************************************************)
(* Population.do_time_step                                                 *)
(***************************************************************************)
\* mutant: reads the last slot of future instead of the first
NextValueExpectation_LastSlot(f) == IF Len(f) > 0 THEN f[Len(f)] ELSE 0

\* lines 97-98: the increment in expectation mode (0 if future is empty)
NextValueExpectation(f) == IF Len(f) > 0 THEN f[1] ELSE 0

\* mutant: the clamp at zero is missing
AppendClamped_NoClamp(h, next_value) == Append(h, Last(h) + next_value)

\* mutant: the new value overwrites the latest entry
AppendClamped_Overwrite(h, next_value) ==
    [h EXCEPT ![Len(h)] = Max(0, @ + next_value)]

\* lines 107-110: append history[-1] + next_value, then clamp the new entry at 0
AppendClamped(h, next_value) ==
    LET appended == Append(h, Last(h) + next_value)
    IN  IF Last(appended) < 0 THEN [appended EXCEPT ![Len(appended)] = 0]
        ELSE appended

\* mutant: deletes the last slot of future instead of the first
DelFuture_LastSlot(f) == IF Len(f) > 0 THEN SubSeq(f, 1, Len(f) - 1) ELSE f

\* lines 112-114: del self.future[0] when future is not empty
DelFuture(f) == IF Len(f) > 0 THEN Tail(f) ELSE f

\* stats.uniform.rvs(loc=low_edge, scale=1-low_edge): a value of [low_edge, 1]
UniformRvs(low_edge) == low_edge..PDen

\* stats.binom.rvs(n, p) for a count n >= 0: the support of Binomial(n, p)
BinomRvs(n, p) ==
    { k \in 0..n : (p = 0 => k = 0) /\ (p = PDen => k = n) }

\* mutant: keeps the reported count as the backlog instead of the missed one
MissedAfter_Reported(slot, n_report) == n_report * Unit

\* the new missed_yesterday (line 105)
MissedAfter(slot, n_report) == slot - n_report * Unit

\* bookkeeping common to every do_time_step that returns
StepReturns(expectations, next_value) ==
    /\ err' = "none"
    /\ op' = [Call("do_time_step") EXCEPT !.expectations = expectations,
                                         !.value = next_value]
    /\ steps' = steps + 1
    /\ clamped' = (clamped \/ Last(history) + next_value < 0)
    /\ sched' = [sched EXCEPT ![steps + 1] = 0]
    /\ UNCHANGED <<config, ndep, deposited, start, nscale>>

StepRaises(expectations, e) ==
    /\ err' = e
    /\ op' = [Call("do_time_step") EXCEPT !.expectations = expectations]
    /\ UNCHANGED <<pop, config, steps, ndep, sched, deposited, start, clamped,
                   nscale>>

\* mutant: a step outside the noise branch releases the backlog
StepPlain_ReleasesBacklog(expectations) ==
    LET next_value == NextValueExpectation(future) + missed_yesterday
    IN  /\ history' = AppendClamped(history, next_value)
        /\ future' = DelFuture(future)
        /\ missed_yesterday' = 0
        /\ StepReturns(expectations, next_value)

\* lines 95-98, 107-114: expectation mode, or a Population without report_noise
StepPlain(expectations) ==
    LET next_value == NextValueExpectation(future)
    IN  /\ history' = AppendClamped(history, next_value)
        /\ future' = DelFuture(future)
        /\ UNCHANGED missed_yesterday
        /\ StepReturns(expectations, next_value)

\* lines 100-114: data mode on a Population with report_noise
StepNoisy ==
    LET low_edge == get_value(report_noise_par)
    IN  IF Len(future) = 0
        THEN \* line 104: self.future[0] of an empty list
             StepRaises(FALSE, "IndexError")
        ELSE \E frac_report \in UniformRvs(low_edge) :
             IF future[1] < 0
             THEN \* binom.rvs rejects n < 0
                  StepRaises(FALSE, "ValueError")
             ELSE \/ /\ future[1] % Unit # 0
                     \* a non-integer n: rejected by scipy builds that check it
                     /\ StepRaises(FALSE, "ValueError")
                  \/ \* an integer n, or a build that truncates n
                     \E n_report \in BinomRvs(future[1] \div Unit, frac_report) :
                        LET next_value == missed_yesterday + n_report * Unit
                        IN  /\ missed_yesterday' = MissedAfter(future[1], n_report)
                            /\ history' = AppendClamped(history, next_value)
                            /\ future' = DelFuture(future)
                            /\ StepReturns(FALSE, next_value)

\* mutant: data mode takes the report-noise branch on every Population
do_time_step_NoiseAlways(expectations) ==
    /\ constructed
    /\ steps < MaxSteps
    /\ IF expectations
       THEN StepPlain(expectations)
       ELSE StepNoisy

do_time_step(expectations) ==
    /\ constructed
    /\ steps < MaxSteps
    /\ IF expectations \/ ~report_noise
       THEN StepPlain(expectations)
       ELSE StepNoisy

(***************************************************************************)
(* Population.reset, Population.remove_history                             *)
(***************************************************************************)
\* mutant: reset reuses the value history[0] was last initialized with
ResetValue_Stale(iv) == start

\* lines 120-123
ResetValue(iv) == IF iv.kind = "Parameter" THEN get_value(iv) ELSE iv.value

\* mutant: the pending future survives the reset
reset_KeepsFuture ==
    /\ constructed
    /\ future' = future
    /\ history' = << ResetValue(initial_value) >>
    /\ missed_yesterday' = 0
    /\ err' = "none"
    /\ op' = [Call("reset") EXCEPT !.value = start]
    /\ steps' = 0
    /\ ndep' = 0
    /\ sched' = NoSched
    /\ deposited' = 0
    /\ start' = ResetValue(initial_value)
    /\ clamped' = FALSE
    /\ nscale' = 0
    /\ UNCHANGED config

\* lines 116-125
reset ==
    /\ constructed
    /\ future' = << >>
    /\ history' = << ResetValue(initial_value) >>
    /\ missed_yesterday' = 0
    /\ err' = "none"
    /\ op' = [Call("reset") EXCEPT !.value = start]
    /\ steps' = 0
    /\ ndep' = 0
    /\ sched' = NoSched
    /\ deposited' = 0
    /\ start' = ResetValue(initial_value)
    /\ clamped' = FALSE
    /\ nscale' = 0
    /\ UNCHANGED config

\* mutant: forgets the current value
RemoveHistory_Zero(h) == IF Len(h) > 0 THEN << 0 >> ELSE h

\* mutant: keeps the oldest entry instead of the latest
RemoveHistory_First(h) == IF Len(h) > 0 THEN << h[1] >> ELSE h

\* lines 130-132
RemoveHistory(h) == IF Len(h) > 0 THEN << Last(h) >> ELSE h

remove_history ==
    /\ constructed
    /\ history' = RemoveHistory(history)
    /\ err' = "none"
    /\ op' = Call("remove_history")
    /\ UNCHANGED <<future, missed_yesterday, config, steps, ndep, sched,
                   deposited, start, clamped, nscale>>

(***************************************************************************)
(* Population.scale_history, Population.scale_future                       *)
(***************************************************************************)
\* lines 137-141 and 146-150: one entry x times scale (= scale / SDen); in
\* data mode nu = x * scale is replaced by int(round(nu))
ScaleEntry(x, scale, expectations) ==
    IF expectations THEN (x * scale) \div SDen
    ELSE RoundRatio(x * scale, Unit * SDen) * Unit

\* mutant: the loop misses the last entry
ScaleAll_ButLast(seq, scale, expectations) ==
    [i \in 1..Len(seq) |->
        IF i < Len(seq) THEN ScaleEntry(seq[i], scale, expectations) ELSE seq[i]]

\* the loops of lines 135-141 and 144-150
ScaleAll(seq, scale, expectations) ==
    [i \in 1..Len(seq) |-> ScaleEntry(seq[i], scale, expectations)]

\* the calls considered: in expectation mode every product is a value of
\* the fixed point
ScaleCase(seq, scale, expectations) ==
    \A i \in 1..Len(seq) : expectations => (seq[i] * scale) % SDen = 0

scale_history(scale, expectations) ==
    /\ constructed
    /\ nscale < MaxScalings
    /\ nscale' = nscale + 1
    /\ ScaleCase(history, scale, expectations)
    /\ history' = ScaleAll(history, scale, expectations)
    /\ err' = "none"
    /\ op' = [Call("scale_history") EXCEPT !.scale = scale,
                                          !.expectations = expectations]
    /\ UNCHANGED <<future, missed_yesterday, config, steps, ndep, sched,
                   deposited, start, clamped>>

scale_future(scale, expectations) ==
    /\ constructed
    /\ nscale < MaxScalings
    /\ nscale' = nscale + 1
    /\ ScaleCase(future, scale, expectations)
    /\ future' = ScaleAll(future, scale, expectations)
    /\ err' = "none"
    /\ op' = [Call("scale_future") EXCEPT !.scale = scale,
                                         !.expectations = expectations]
    /\ UNCHANGED <<history, missed_yesterday, config, steps, ndep, sched,
                   deposited, start, clamped>>

(***************************************************************************)
(* Deposits: Population.update_future_expectation / _data / _fast          *)
(***************************************************************************)
\* mutant: off by one in the length test, appends although the slot exists
RECURSIVE UpdateLoop_OffByOne(_, _, _)
UpdateLoop_OffByOne(f, amounts, i) ==
    IF i > Len(amounts) THEN f
    ELSE UpdateLoop_OffByOne(IF Len(f) > i
                             THEN [f EXCEPT ![i] = @ + amounts[i]]
                             ELSE Append(f, amounts[i]),
                             amounts, i + 1)

\* mutant: assigns the amount to an existing slot instead of adding it
RECURSIVE UpdateLoop_Assign(_, _, _)
UpdateLoop_Assign(f, amounts, i) ==
    IF i > Len(amounts) THEN f
    ELSE UpdateLoop_Assign(IF Len(f) > i - 1
                           THEN [f EXCEPT ![i] = amounts[i]]
                           ELSE Append(f, amounts[i]),
                           amounts, i + 1)

\* lines 155-160 and 167-172: the loop from (1-based) offset i on; amounts[i]
\* is added to future[i], or appended when future is not longer than i - 1
RECURSIVE UpdateLoop(_, _, _)
UpdateLoop(f, amounts, i) ==
    IF i > Len(amounts) THEN f
    ELSE UpdateLoop(IF Len(f) > i - 1
                    THEN [f EXCEPT ![i] = @ + amounts[i]]
                    ELSE Append(f, amounts[i]),
                    amounts, i + 1)

\* line 156: dfe = delay.future_expectations[i] * scale, for every i
Expectations(scale, delay) == [i \in 1..Len(delay) |-> delay[i] * scale]

\* stats.multinomial.rvs(n, p) for n >= 0: the count vectors of total n that
\* put nothing on a category of probability 0
MultinomialRvs(n, p) ==
    { d \in [1..Len(p) -> 0..n] :
        /\ SumSeq(d) = n
        /\ \A i \in 1..Len(p) : p[i] = 0 => d[i] = 0 }

\* the counts of a draw, as values
Counts(dist) == [i \in 1..Len(dist) |-> dist[i] * Unit]

\* mutant: always appends a new slot
UpdateFast_Append(f, value) == Append(f, value)

\* lines 177-180
UpdateFast(f, value) ==
    IF Len(f) > 0 THEN [f EXCEPT ![1] = @ + value] ELSE Append(f, value)

\* sched after amounts[i] is deposited for the (i-1)-th day after tomorrow
Scheduled(amounts) ==
    [t \in 1..SchedLen |->
        sched[t] + IF t - steps \in 1..Len(amounts) THEN amounts[t - steps] ELSE 0]

DepositReturns(call, amounts) ==
    /\ err' = "none"
    /\ op' = call
    /\ ndep' = ndep + 1
    /\ sched' = Scheduled(amounts)
    /\ deposited' = deposited + SumSeq(amounts)
    /\ UNCHANGED <<history, missed_yesterday, config, steps, start, clamped,
                   nscale>>

update_future_expectation(scale, delay) ==
    /\ constructed
    /\ ndep < MaxDeposits
    /\ future' = UpdateLoop(future, Expectations(scale, delay), 1)
    /\ DepositReturns([Call("update_future_expectation") EXCEPT
                          !.scale = scale, !.delay = delay],
                      Expectations(scale, delay))

update_future_data(scale, delay) ==
    LET call == [Call("update_future_data") EXCEPT !.scale = scale, !.delay = delay]
    IN  /\ constructed
        /\ ndep < MaxDeposits
        /\ IF PyInt(scale) < 0
           THEN \* multinomial.rvs rejects n < 0
                /\ err' = "ValueError"
                /\ op' = call
                /\ UNCHANGED <<pop, config, steps, ndep, sched, deposited, start,
                               clamped, nscale>>
           ELSE \E dist \in MultinomialRvs(PyInt(scale), delay) :
                /\ future' = UpdateLoop(future, Counts(dist), 1)
                /\ DepositReturns(call, Counts(dist))

update_future_fast(value) ==
    /\ constructed
    /\ ndep < MaxDeposits
    /\ future' = UpdateFast(future, value)
    /\ DepositReturns([Call("update_future_fast") EXCEPT !.value = value],
                      << value >>)

(***************************************************************************)
(* Parameter.set_value on the initial-value Parameter (a new calibration   *)
(* value between runs, or a Modifier during one)                           *)
(***************************************************************************)
set_value ==
    /\ constructed
    /\ initial_value.kind = "Parameter"
    /\ \E v \in ParameterValues \ {initial_value.value} :
          initial_value' = [initial_value EXCEPT !.value = v]
    /\ err' = "none"
    /\ op' = Call("set_value")
    /\ UNCHANGED <<pop, report_noise, report_noise_par, monotonic, constructed,
                   steps, ndep, sched, deposited, start, clamped, nscale>>

(***************************************************************************)
(* The specification                                                       *)
(***************************************************************************)
\* the Population is driven alone: nothing is compared or recorded
Alone == UNCHANGED <<twin, log, model>>

Next ==
    \/ \E expectations \in BOOLEAN : do_time_step(expectations) /\ Alone
    \/ reset /\ Alone
    \/ remove_history /\ Alone
    \/ \E scale \in DataScales, delay \in Delays :
          update_future_data(scale, delay) /\ Alone
    \/ \E value \in FastValues : update_future_fast(value) /\ Alone
    \/ \E scale \in ExpScales, delay \in Delays :
          update_future_expectation(scale, delay) /\ Alone
    \/ set_value /\ Alone

Spec == Init /\ [][Next]_vars

\* expectation mode only: deposits of expectations and expectation-mode steps
NextExpectation ==
    \/ do_time_step(TRUE) /\ Alone
    \/ \E scale \in ExpScales, delay \in Delays :
          update_future_expectation(scale, delay) /\ Alone
    \/ \E value \in FastValues : update_future_fast(value) /\ Alone

SpecExpectation == Init /\ [][NextExpectation]_vars

\* every combination of constructor arguments, followed by an
\* expectation-mode run of the Populations that were constructed
InitAnyArgs ==
    /\ \E iv \in InitialValueArgs, rn \in BOOLEAN, rnp \in NoiseParArgs :
          Population_init(iv, rn, rnp)
    /\ twin = NoTwin
    /\ log = << >>
    /\ model = NoModel

SpecConstruct == InitAnyArgs /\ [][NextExpectation]_vars

\* the Populations 'positives' and 'reported' as examples/ref_model_2_4.py
\* constructs them (lines 246-255), and 'reported' without the two
\* keywords report_backlog_par and report_days
ReferenceCalls ==
    { [rn |-> FALSE, rnp |-> [kind |-> "None", value |-> 0],
       keywords |-> {"color"}],
      [rn |-> TRUE, rnp |-> [kind |-> "Parameter", value |-> PDen],
       keywords |-> {"hidden", "color", "show_sim"}],
      [rn |-> TRUE, rnp |-> [kind |-> "Parameter", value |-> PDen],
       keywords |-> {"hidden", "color", "show_sim",
                     "report_backlog_par", "report_days"}] }

InitReference ==
    /\ \E c \in ReferenceCalls :
          Population_call([kind |-> "number", value |-> 0], c.rn, c.rnp, c.keywords)
    /\ twin = NoTwin
    /\ log = << >>
    /\ model = NoModel

SpecReference == InitReference /\ [][NextExpectation]_vars

\* scale_history and scale_future on the states of an expectation-mode run
NextScale ==
    \/ do_time_step(TRUE) /\ Alone
    \/ \E scale \in ScaleFactors, expectations \in BOOLEAN :
          scale_history(scale, expectations) /\ Alone
    \/ \E scale \in ScaleFactors, expectations \in BOOLEAN :
          scale_future(scale, expectations) /\ Alone
    \/ \E scale \in ExpScales, delay \in Delays :
          update_future_expectation(scale, delay) /\ Alone

SpecScale == Init /\ [][NextScale]_vars

\* a Population with report noise, and every method of it: steps in both
\* modes, integer data deposits through either delay, and one call each of
\* the other deposits and of the data-mode scalings
InitBacklog ==
    /\ Construct
    /\ constructed /\ report_noise
    /\ twin = NoTwin
    /\ log = << >>
    /\ model = NoModel

NextBacklog ==
    \/ \E expectations \in BOOLEAN : do_time_step(expectations) /\ Alone
    \/ reset /\ Alone
    \/ remove_history /\ Alone
    \/ scale_history(SDen + 1, FALSE) /\ Alone
    \/ scale_future(SDen + 1, FALSE) /\ Alone
    \/ \E delay \in Delays : update_future_data(2 * SDen, delay) /\ Alone
    \/ update_future_fast(Unit) /\ Alone
    \/ update_future_expectation(1, <<MDen>>) /\ Alone

SpecBacklog == InitBacklog /\ [][NextBacklog]_vars

(***************************************************************************)
(* Two runs side by side.  The calls that follow a fork are made on the    *)
(* Population and, with the same arguments, on its twin.                   *)
(***************************************************************************)
\* do_time_step(expectations=True) on the twin
TwinStep(t) ==
    [t EXCEPT !.history = AppendClamped(@, NextValueExpectation(t.future)),
              !.future = DelFuture(@)]

\* update_future_expectation(scale, delay) on the twin
TwinExpectation(t, scale, delay) ==
    [t EXCEPT !.future = UpdateLoop(@, Expectations(scale, delay), 1)]

\* update_future_fast(value) on the twin
TwinFast(t, value) == [t EXCEPT !.future = UpdateFast(@, value)]

BothStep ==
    /\ do_time_step(TRUE)
    /\ twin' = TwinStep(twin)
    /\ UNCHANGED <<log, model>>

BothExpectation ==
    \E scale \in ExpScales, delay \in Delays :
        /\ update_future_expectation(scale, delay)
        /\ twin' = TwinExpectation(twin, scale, delay)
        /\ UNCHANGED <<log, model>>

BothFast ==
    \E value \in FastValues :
        /\ update_future_fast(value)
        /\ twin' = TwinFast(twin, value)
        /\ UNCHANGED <<log, model>>

(***************************************************************************)
(* A warm-up, remove_history, and the recorded run that follows; the twin  *)
(* is the same Population without the call of remove_history.              *)
(***************************************************************************)
\* remove_history is called; the twin goes on from the state as it was,
\* cut marks the entry of its history that the Population keeps
Discard ==
    /\ twin.cut = 0
    /\ twin' = [Twin(history, future, missed_yesterday) EXCEPT !.cut = Len(history)]
    /\ remove_history
    /\ UNCHANGED <<log, model>>

NextRemoveHistory ==
    \/ twin.cut = 0 /\ (\E expectations \in BOOLEAN : do_time_step(expectations)) /\ Alone
    \/ twin.cut = 0 /\ Alone /\ \E scale \in DataScales, delay \in Delays :
                                    update_future_data(scale, delay)
    \/ twin.cut = 0 /\ Alone /\ \E value \in FastValues : update_future_fast(value)
    \/ twin.cut = 0 /\ Alone /\ \E scale \in ExpScales, delay \in Delays :
                                    update_future_expectation(scale, delay)
    \/ Discard
    \/ twin.cut > 0 /\ BothStep
    \/ twin.cut > 0 /\ BothExpectation
    \/ twin.cut > 0 /\ BothFast

SpecRemoveHistory == Init /\ [][NextRemoveHistory]_vars

(***************************************************************************)
(* Report noise switched off by its Parameter: a Population with           *)
(* report_noise and report_noise_par = 1 is stepped in data mode, its twin *)
(* in expectation mode; both receive the same integer deposits.            *)
(***************************************************************************)
InitNoiseOff ==
    /\ Construct
    /\ constructed /\ report_noise /\ get_value(report_noise_par) = PDen
    /\ twin = Twin(history, future, missed_yesterday)
    /\ log = << >>
    /\ model = NoModel

\* do_time_step(expectations=False) against do_time_step(expectations=True)
DataStepBesideExpectationStep ==
    /\ do_time_step(FALSE)
    /\ twin' = TwinStep(twin)
    /\ UNCHANGED <<log, model>>

\* update_future_data on both, with the same draw: the twin receives the
\* counts the Population received, and nothing if the call raised
BothData ==
    \E scale \in DataScales, delay \in Delays :
        /\ update_future_data(scale, delay)
        /\ twin' = IF err' # "none" THEN twin
                   ELSE [twin EXCEPT !.future =
                           UpdateLoop(@, [i \in 1..Len(delay) |->
                                            future'[i] - IF i <= Len(future)
                                                         THEN future[i] ELSE 0], 1)]
        /\ UNCHANGED <<log, model>>

\* an exception ends the run
NextNoiseOff ==
    \/ err = "none" /\ DataStepBesideExpectationStep
    \/ err = "none" /\ BothData
    \/ err = "none" /\ BothFast

SpecNoiseOff == InitNoiseOff /\ [][NextNoiseOff]_vars

(***************************************************************************)
(* An expectation-mode run, reset, and the same run again.  log holds the  *)
(* calls of the first run, twin the Population as the first run left it;   *)
(* twin.cut is 0 during the first run and then the place in log of the     *)
(* call that is repeated next.                                             *)
(***************************************************************************)
FirstRun == twin.cut = 0 /\ log' = Append(log, op') /\ UNCHANGED <<twin, model>>

\* the first run ends: the Population is reset for the second one
Rerun ==
    /\ twin.cut = 0
    /\ twin' = [Twin(history, future, missed_yesterday) EXCEPT !.cut = 1]
    /\ reset
    /\ UNCHANGED <<log, model>>

\* the second run is at a call of the given name
Repeating(name) ==
    /\ twin.cut \in 1..Len(log)
    /\ log[twin.cut].name = name
    /\ twin' = [twin EXCEPT !.cut = @ + 1]
    /\ UNCHANGED <<log, model>>

NextRerun ==
    \/ do_time_step(TRUE) /\ FirstRun
    \/ (\E scale \in ExpScales, delay \in Delays :
            update_future_expectation(scale, delay)) /\ FirstRun
    \/ (\E value \in FastValues : update_future_fast(value)) /\ FirstRun
    \/ Rerun
    \/ Repeating("do_time_step") /\ do_time_step(TRUE)
    \/ Repeating("update_future_expectation")
          /\ update_future_expectation(log[twin.cut].scale, log[twin.cut].delay)
    \/ Repeating("update_future_fast") /\ update_future_fast(log[twin.cut].value)

SpecRerun == Init /\ [][NextRerun]_vars

(***************************************************************************)
(* Two deposits in either order.  The Population receives a deposit and    *)
(* then a second one; its twin, forked before the first, receives the same *)
(* two in the opposite order.  log holds the two calls, twin.cut the       *)
(* number of them made.  Both are stepped afterwards.  Steps and deposits  *)
(* made before the fork are made on the Population alone.                  *)
(***************************************************************************)
\* the calls update_future_expectation(scale, delay), update_future_fast(value)
Deposits ==
    { [Call("update_future_expectation") EXCEPT !.scale = scale, !.delay = delay] :
        scale \in ExpScales, delay \in Delays }
        \cup { [Call("update_future_fast") EXCEPT !.value = value] :
                value \in FastValues }

\* the call made on the twin
TwinDeposit(t, call) ==
    IF call.name = "update_future_expectation"
    THEN TwinExpectation(t, call.scale, call.delay)
    ELSE TwinFast(t, call.value)

\* the first deposit is made; the twin is forked and receives another first
FirstDeposit(second) ==
    /\ twin.cut = 0
    /\ twin' = [TwinDeposit(Twin(history, future, missed_yesterday), second)
                    EXCEPT !.cut = 1]
    /\ log' = << op', second >>
    /\ UNCHANGED model

\* the second deposit is made; the twin receives the one it was not given
SecondDeposit(name) ==
    /\ twin.cut = 1
    /\ log[2].name = name
    /\ twin' = [TwinDeposit(twin, log[1]) EXCEPT !.cut = 2]
    /\ UNCHANGED <<log, model>>

NextCommute ==
    \/ twin.cut = 0 /\ do_time_step(TRUE) /\ Alone
    \/ twin.cut = 0 /\ Alone /\ \E scale \in ExpScales, delay \in Delays :
                                    update_future_expectation(scale, delay)
    \/ twin.cut = 0 /\ Alone /\ \E value \in FastValues : update_future_fast(value)
    \/ \E scale \in ExpScales, delay \in Delays, second \in Deposits :
          update_future_expectation(scale, delay) /\ FirstDeposit(second)
    \/ \E value \in FastValues, second \in Deposits :
          update_future_fast(value) /\ FirstDeposit(second)
    \/ SecondDeposit("update_future_expectation")
          /\ update_future_expectation(log[2].scale, log[2].delay)
    \/ SecondDeposit("update_future_fast") /\ update_future_fast(log[2].value)
    \/ twin.cut = 2 /\ BothStep

SpecCommute == Init /\ [][NextCommute]_vars

(***************************************************************************)
(* A run that falls quiet: after steps and deposits in expectation mode    *)
(* nothing more is deposited and the Population is only stepped.  twin is  *)
(* the Population as it was before the first step of the quiet run.  The   *)
(* initial value is any number the constructor accepts, also one below 0.  *)
(***************************************************************************)
NegativeNumbers == { -Unit }

InitQuiet ==
    /\ \E iv \in InitialValueArgs \cup [kind : {"number"}, value : NegativeNumbers] :
          Population_init(iv, FALSE, [kind |-> "None", value |-> 0])
    /\ constructed
    /\ twin = NoTwin
    /\ log = << >>
    /\ model = NoModel

\* the first step after the last deposit
FirstQuietStep ==
    /\ twin.cut = 0
    /\ do_time_step(TRUE)
    /\ twin' = [Twin(history, future, missed_yesterday) EXCEPT !.cut = 1]
    /\ UNCHANGED <<log, model>>

NextQuiet ==
    \/ twin.cut = 0 /\ do_time_step(TRUE) /\ Alone
    \/ twin.cut = 0 /\ Alone /\ \E scale \in ExpScales, delay \in Delays :
                                    update_future_expectation(scale, delay)
    \/ twin.cut = 0 /\ Alone /\ \E value \in FastValues : update_future_fast(value)
    \/ FirstQuietStep
    \/ twin.cut = 1 /\ do_time_step(TRUE) /\ Alone

SpecQuiet == InitQuiet /\ [][NextQuiet]_vars

(***************************************************************************)
(* A Model: Populations, the connectors that move each day's increment     *)
(* between them and the transitions that act on a given day.  A day of the *)
(* Model evaluates its transitions, then its connectors, then steps each   *)
(* Population; model.pc is the place in that list and model.day the number *)
(* of days completed.  The Populations are records stepped and deposited   *)
(* into by the operators of Population.py, in expectation mode.            *)
(***************************************************************************)
\* the days a Model is run for
MaxDays == 3

\* the Populations of the Model, in the order they were added to it
Populations == << "source", "copy", "total", "first", "second", "last" >>

\* Population(name, 0): history [0] and nothing scheduled
NewPopulation == [history |-> << 0 >>, future |-> << >>]

\* Injector(name, 'rel_days', trigger, target, amount, enabled=...)
Injector(id, trigger, amount, enabled) ==
    [kind |-> "Injector", id |-> id, target |-> "source",
     trigger |-> trigger, amount |-> amount, enabled |-> enabled]

\* Adder(name, from_population, to_population)
Adder(from, to) == [kind |-> "Adder", source |-> from, dest |-> to]

\* Splitter(name, from_population, to_populations, fractions, delays): one
\* fraction less than there are destinations; a fraction f stands for f / SDen
Splitter(from, to, fractions, delays) ==
    [kind |-> "Splitter", source |-> from, dests |-> to,
     fractions |-> fractions, delays |-> delays]

\* the fractions a Splitter of three destinations is given
SplitterFractions ==
    { fr \in (0..SDen) \X (0..SDen) : fr[1] + fr[2] <= SDen }

\* the delay distribution of each branch of the Splitter
SplitterDelays == << <<MDen>>, <<1, MDen - 1>>, <<MDen>> >>

\* a Model as built before its first day: two Injectors into the same
\* Population, a chain of two Adders from it, and a Splitter of it
NewModel(t1, e1, t2, e2, fr) ==
    [day |-> 0, pc |-> 1,
     pops |-> [n \in {Populations[i] : i \in 1..Len(Populations)} |-> NewPopulation],
     transitions |-> << Injector(1, t1, Unit, e1), Injector(2, t2, 2 * Unit, e2) >>,
     connectors |-> << Adder("source", "copy"), Adder("copy", "total"),
                       Splitter("source", << "first", "second", "last" >>,
                                fr, SplitterDelays) >>]

\* do_time_step of every Population, in the order of the registry
PopulationSteps ==
    [i \in 1..Len(Populations) |-> [kind |-> "Population", name |-> Populations[i]]]

\* mutant: the Populations are stepped before the connectors are evaluated
StepOrder_PopulationsFirst(m) == m.transitions \o PopulationSteps \o m.connectors

\* one day of the Model: transitions, then connectors, then the Populations
StepOrder(m) == m.transitions \o m.connectors \o PopulationSteps

\* what the Model evaluates next
Current == StepOrder(model)[model.pc]

\* on to the next item of the day, or to the next day
Advance(m) ==
    IF m.pc < Len(StepOrder(m)) THEN [m EXCEPT !.pc = @ + 1]
    ELSE [m EXCEPT !.pc = 1, !.day = @ + 1]

\* a Population's latest daily increment: what its next step will add
LatestIncrement(p) == IF Len(p.future) > 0 THEN p.future[1] ELSE 0

\* an Injector acts on its trigger day, if it is enabled
Fires(m, t) == t.enabled /\ m.day = t.trigger

\* the Injector adds its amount to the target's immediate future slot
Injected(m, t) ==
    IF Fires(m, t) THEN [m EXCEPT !.pops[t.target] = TwinFast(@, t.amount)]
    ELSE m

\* the Adder hands the source's latest increment to the destination, undelayed
Add(m, c) ==
    [m EXCEPT !.pops[c.dest] = TwinFast(@, LatestIncrement(m.pops[c.source]))]

\* the fraction of branch i, in units of 1 / SDen: the last one is implicit
BranchFraction(c, i) ==
    IF i <= Len(c.fractions) THEN c.fractions[i]
    ELSE SDen - SumSeq(c.fractions)

\* the scale argument of branch i for a source increment inc (a whole number
\* of individuals, inc / Unit): the branch's share of it, in units of 1 / SDen
BranchScale(c, inc, i) == (inc \div Unit) * BranchFraction(c, i)

\* the Splitter deposits each branch's share through the branch's delay
RECURSIVE SplitLoop(_, _, _, _)
SplitLoop(ps, c, inc, i) ==
    IF i > Len(c.dests) THEN ps
    ELSE SplitLoop([ps EXCEPT ![c.dests[i]] =
                        TwinExpectation(@, BranchScale(c, inc, i), c.delays[i])],
                   c, inc, i + 1)

Split(m, c) ==
    [m EXCEPT !.pops = SplitLoop(@, c, LatestIncrement(m.pops[c.source]), 1)]

\* everything but the Model
single == <<pop, config, err, op, steps, ndep, sched, deposited, start,
            clamped, nscale, twin, log>>

EvaluateInjector ==
    /\ model.day < MaxDays
    /\ Current.kind = "Injector"
    /\ model' = Advance(Injected(model, Current))
    /\ UNCHANGED single

EvaluateAdder ==
    /\ model.day < MaxDays
    /\ Current.kind = "Adder"
    /\ model' = Advance(Add(model, Current))
    /\ UNCHANGED single

EvaluateSplitter ==
    /\ model.day < MaxDays
    /\ Current.kind = "Splitter"
    /\ model' = Advance(Split(model, Current))
    /\ UNCHANGED single

StepPopulation ==
    /\ model.day < MaxDays
    /\ Current.kind = "Population"
    /\ model' = Advance([model EXCEPT !.pops[Current.name] = TwinStep(@)])
    /\ UNCHANGED single

InitModel ==
    /\ Population_init([kind |-> "number", value |-> 0],
                       FALSE, [kind |-> "None", value |-> 0])
    /\ twin = NoTwin
    /\ log = << >>
    /\ \E t1 \in 0..(MaxDays - 1), t2 \in 0..(MaxDays - 1),
          e1 \in BOOLEAN, e2 \in BOOLEAN, fr \in SplitterFractions :
            model = NewModel(t1, e1, t2, e2, fr)

NextModel ==
    \/ EvaluateInjector
    \/ EvaluateAdder
    \/ EvaluateSplitter
    \/ StepPopulation

SpecModel == InitModel /\ [][NextModel]_vars

(***************************************************************************)
(* Claims                                                                  *)
(***************************************************************************)
IsStep(o) == o.name = "do_time_step"
\* a step that takes lines 95-98: expectation mode, or no report noise
IsPlainStep(o) == IsStep(o) /\ (o.expectations \/ ~report_noise)
\* a step that takes lines 100-106: data mode with report noise
IsNoisyStep(o) == IsStep(o) /\ ~o.expectations /\ report_noise

\* future[i] read as 0 beyond the end of the buffer
Slot(f, i) == IF i <= Len(f) THEN f[i] ELSE 0

\* C1: with an initial value >= 0 every entry of history is >= 0 in every
\* reachable state, also after a step whose increment is negative.
C1_HistoryNonNegative ==
    (constructed /\ start >= 0) => \A i \in 1..Len(history) : history[i] >= 0

\* a step has realized a negative increment below zero and was clamped
C1_Witness ==
    /\ IsStep(op) /\ err = "none"
    /\ Len(history) >= 2
    /\ history[Len(history) - 1] + op.value < 0
    /\ Last(history) = 0

\* C2: an expectation-mode step appends exactly max(0, v + f[0]) (max(0, v)
\* when future is empty), keeps the earlier entries, and removes exactly the
\* head of future.
C2_ExpectationStep ==
    [][ (IsStep(op') /\ op'.expectations) =>
          /\ err' = "none"
          /\ Len(history') = Len(history) + 1
          /\ \A i \in 1..Len(history) : history'[i] = history[i]
          /\ Last(history') = Max(0, Last(history) + Slot(future, 1))
          /\ Len(future') = Max(0, Len(future) - 1)
          /\ \A i \in 1..Len(future') : future'[i] = future[i + 1]
          /\ missed_yesterday' = missed_yesterday ]_vars

\* an expectation step consumed a non-zero slot and moved a pending amount
\* one offset closer
C2_Witness ==
    /\ IsStep(op) /\ op.expectations /\ err = "none"
    /\ op.value # 0
    /\ Len(future) >= 1 /\ future[1] # 0

\* C3 as stated: every step that returns adds to history exactly the amounts
\* deposited for it (sched[t] for the t-th step), whatever its mode.
C3_Original ==
    [][ (IsStep(op') /\ err' = "none") =>
          /\ op'.value = sched[steps + 1]
          /\ Last(history') = Max(0, Last(history) + sched[steps + 1]) ]_vars

\* C3 amended: the t-th step consumes the slot holding exactly the amounts
\* deposited for it; in expectation mode or without report noise it adds
\* them to history; a data-mode step with report noise adds the reported
\* part with the old backlog and carries the rest in missed_yesterday.
C3_DepositConsumedOnSchedule ==
    [][ (IsStep(op') /\ err' = "none") =>
          /\ steps' = steps + 1
          /\ Len(history') = Len(history) + 1
          /\ Slot(future, 1) = sched[steps + 1]
          /\ \A i \in 1..Len(future') : future'[i] = sched[steps + 1 + i]
          /\ Last(history') = Max(0, Last(history) + op'.value)
          /\ IsPlainStep(op') => op'.value = sched[steps + 1]
          /\ IsNoisyStep(op') =>
                op'.value + missed_yesterday' = missed_yesterday + sched[steps + 1] ]_vars

\* two deposits fed three steps in a row: one of them was made over offsets
\* 0 and 1, and its later part was added by the second step that followed it
C3_Witness ==
    /\ IsPlainStep(op) /\ err = "none"
    /\ steps = 3 /\ ndep = 2 /\ ~clamped
    /\ Len(history) = 4
    /\ \A i \in 1..3 : history[i + 1] # history[i]
    /\ op.value = history[4] - history[3]

\* C4: update_future_expectation(scale, delay) leaves future of length
\* max(len(f), L) with future[i] = f[i] (0 if absent) + scale * m[i] for
\* i < L and future[i] = f[i] beyond; history and backlog are unchanged.
C4_UpdateFutureExpectation ==
    [][ op'.name = "update_future_expectation" =>
          LET L == Len(op'.delay)
          IN  /\ err' = "none"
              /\ Len(future') = Max(Len(future), L)
              /\ \A i \in 1..L :
                    future'[i] = Slot(future, i) + op'.scale * op'.delay[i]
              /\ \A i \in (L + 1)..Len(future') : future'[i] = future[i]
              /\ history' = history
              /\ missed_yesterday' = missed_yesterday ]_vars

\* a deposit over two offsets was added onto a shorter, non-empty future
C4_Witness ==
    /\ op.name = "update_future_expectation" /\ err = "none"
    /\ Len(op.delay) = 2 /\ Len(future) = 2
    /\ future[1] # op.scale * op.delay[1]
    /\ future[2] = op.scale * op.delay[2]
    /\ ndep = 2

\* C5: in expectation mode, while the clamp has not fired,
\* history[-1] + sum(future) = initial value + total deposited.
C5_MassConservation ==
    (constructed /\ ~clamped) =>
        Last(history) + SumSeq(future) = start + deposited

\* deposits have drained into the population without loss
C5_Witness ==
    /\ constructed /\ ~clamped
    /\ ndep = 2 /\ steps >= 2
    /\ future = << >>
    /\ deposited > 0
    /\ Last(history) = start + deposited

\* the amounts a deposit added, offset by offset
Added(i) == future'[i] - Slot(future, i)
SupportAdded(L) == [i \in 1..L |-> Added(i)]

C7_BadTotalIsFatal ==
    [][ (op'.name = "update_future_data"
            /\ (op'.scale < 0 \/ op'.scale % SDen # 0)) =>
          /\ err' \notin {"none", "TypeError"}
          /\ future' = future
          /\ history' = history ]_vars

\* C8: a data-mode step with report noise on a slot a >= 0 (an integer) and
\* backlog b realizes b + n and leaves the backlog a - n for some integer
\* n in 0..a.
C8_ReportNoiseStep ==
    [][ (IsNoisyStep(op') /\ Len(future) > 0
            /\ future[1] >= 0 /\ future[1] % Unit = 0) =>
          /\ err' = "none"
          /\ \E n \in 0..(future[1] \div Unit) :
                /\ op'.value = missed_yesterday + n * Unit
                /\ missed_yesterday' = future[1] - n * Unit
          /\ Last(history') = Max(0, Last(history) + op'.value)
          /\ op'.value + missed_yesterday' = missed_yesterday + future[1]
          /\ missed_yesterday' >= 0 /\ missed_yesterday' <= future[1] ]_vars

\* part of today's slot was reported on top of a backlog, part was missed
C8_Witness ==
    /\ IsNoisyStep(op) /\ err = "none"
    /\ steps >= 2
    /\ missed_yesterday > 0
    /\ op.value > missed_yesterday

\* C9: a call of do_time_step never ends in an error.
C9_StepNeverFails == IsStep(op) => err = "none"

\* C10: reset leaves history = [x], x the literal initial value or the
\* Parameter's value at the time of the reset, future = [] and backlog 0.
C10_Reset ==
    [][ op'.name = "reset" =>
          /\ err' = "none"
          /\ history' = << initial_value.value >>
          /\ future' = << >>
          /\ missed_yesterday' = 0 ]_vars

\* a reset took a Parameter value that differs from the one history[0] was
\* initialized with before
C10_Witness ==
    /\ op.name = "reset"
    /\ initial_value.kind = "Parameter"
    /\ history = << initial_value.value >>
    /\ op.value # initial_value.value

\* C11: remove_history replaces history by [history[-1]]; future (every
\* slot and its length) and missed_yesterday are unchanged.
C11_RemoveHistory ==
    [][ op'.name = "remove_history" =>
          /\ err' = "none"
          /\ history' = << Last(history) >>
          /\ future' = future
          /\ missed_yesterday' = missed_yesterday ]_vars

\* a history grown by steps was cut to its latest value, differing from its
\* first, while amounts were pending in future and in the backlog
C11_Witness ==
    /\ op.name = "remove_history"
    /\ steps >= 2
    /\ history = << start + Unit >>
    /\ Len(future) >= 1 /\ future[1] # 0
    /\ missed_yesterday > 0

\* C12: after remove_history, deposits and expectation-mode steps append to
\* history the same values, in the same order, as they append in the run
\* that goes on from the same state without remove_history.
C12_NoDiscontinuity ==
    twin.cut > 0 =>
        /\ Len(history) = Len(twin.history) - twin.cut + 1
        /\ \A i \in 2..Len(history) : history[i] = twin.history[twin.cut + i - 1]

\* a warm-up of at least one step was discarded with an amount pending, and
\* two steps after it appended two different values
C12_Witness ==
    /\ twin.cut >= 2
    /\ twin.history[twin.cut] # twin.history[1]
    /\ Len(history) = 3
    /\ history[2] # history[1] /\ history[3] # history[2]
    /\ ndep = 2

\* C13: update_future_fast(value) adds value to future[0], or creates
\* future = [value] when future was empty; the other slots, history and
\* the backlog are unchanged and len(future) becomes max(1, old length).
C13_UpdateFutureFast ==
    [][ op'.name = "update_future_fast" =>
          /\ err' = "none"
          /\ Len(future') = Max(1, Len(future))
          /\ future'[1] = Slot(future, 1) + op'.value
          /\ \A i \in 2..Len(future') : future'[i] = future[i]
          /\ history' = history
          /\ missed_yesterday' = missed_yesterday ]_vars

\* a value was added onto the head of a future of two pending slots, after
\* a step had been taken
C13_Witness ==
    /\ op.name = "update_future_fast" /\ err = "none"
    /\ Len(future) = 2
    /\ future[1] # op.value /\ future[2] # 0
    /\ Len(history) >= 2

IsScaling(o) == o.name \in {"scale_history", "scale_future"}
\* the sequence a scaling call works on, before and after the call
Scaled(o) == IF o.name = "scale_history" THEN history ELSE future
ScaledAfter(o) == IF o.name = "scale_history" THEN history' ELSE future'

\* C14: in expectation mode scale_history / scale_future multiply every
\* entry of history / future by scale, keeping length and order;
\* scale_history leaves future and missed_yesterday unchanged, scale_future
\* leaves history and missed_yesterday unchanged.
C14_ScaleExpectation ==
    [][ IsScaling(op') =>
          /\ err' = "none"
          /\ missed_yesterday' = missed_yesterday
          /\ op'.name = "scale_history" => future' = future
          /\ op'.name = "scale_future" => history' = history
          /\ op'.expectations =>
                /\ Len(ScaledAfter(op')) = Len(Scaled(op'))
                /\ \A i \in 1..Len(Scaled(op')) :
                      ScaledAfter(op')[i] * SDen = Scaled(op')[i] * op'.scale ]_vars

\* a history of three different entries was multiplied by 1 + 1/SDen while
\* an amount was pending
C14_Witness ==
    /\ op.name = "scale_history" /\ op.expectations /\ op.scale = SDen + 1
    /\ Len(history) = 3
    /\ history[1] # history[2] /\ history[2] # history[3] /\ history[3] # 0
    /\ Len(future) >= 1 /\ future[1] # 0

\* C15: in data mode scale_history / scale_future replace every entry x by
\* an integer within 1/2 of x * scale, for scale >= 0; scaling by 1 leaves
\* integer entries unchanged.
C15_ScaleData ==
    [][ (IsScaling(op') /\ ~op'.expectations /\ op'.scale >= 0) =>
          /\ Len(ScaledAfter(op')) = Len(Scaled(op'))
          /\ \A i \in 1..Len(Scaled(op')) :
                LET x == Scaled(op')[i]
                    y == ScaledAfter(op')[i]
                IN  /\ y % Unit = 0
                    /\ 2 * Abs(y * SDen - x * op'.scale) <= Unit * SDen
                    /\ (op'.scale = SDen /\ x % Unit = 0) => y = x ]_vars

\* two pending slots, one of them negative, were scaled in data mode by a
\* factor that is not an integer, and neither was rounded to zero
C15_Witness ==
    /\ op.name = "scale_future" /\ ~op.expectations /\ op.scale % SDen # 0
    /\ Len(future) = 2
    /\ future[1] # 0 /\ future[2] # 0
    /\ future[1] < 0 \/ future[2] < 0

\* C16: construction fails with a validation error exactly when
\* initial_value is neither a number nor a Parameter, or report_noise is
\* set and report_noise_par is missing or not a Parameter; otherwise it
\* returns a Population with history = [initial value], future = [],
\* missed_yesterday = 0 and monotonic = true.
C16_Construction ==
    op.name = "__init__" =>
        LET bad == \/ initial_value.kind \notin {"number", "Parameter"}
                   \/ report_noise /\ report_noise_par.kind # "Parameter"
        IN  /\ bad => err = "TypeError" /\ ~constructed
            /\ ~bad =>
                  /\ err = "none" /\ constructed
                  /\ history = << initial_value.value >>
                  /\ future = << >>
                  /\ missed_yesterday = 0
                  /\ monotonic

\* report_noise was set with something that is not a Parameter, the initial
\* value being a valid one, and the constructor raised
C16_Witness ==
    /\ op.name = "__init__"
    /\ initial_value.kind = "Parameter"
    /\ report_noise /\ report_noise_par.kind = "other"
    /\ err = "TypeError" /\ ~constructed

\* C17: an expectation-mode run of deposits and steps, reset, and the same
\* calls again with unchanged Parameters: the second run records the same
\* history as the first, entry by entry, whatever the first run left
\* behind.
C17_RerunSameHistory ==
    twin.cut >= 1 =>
        /\ Len(history) <= Len(twin.history)
        /\ \A i \in 1..Len(history) : history[i] = twin.history[i]
        /\ twin.cut = Len(log) + 1 => history = twin.history

\* a run of three steps and two deposits that left an amount pending was
\* repeated to its end after the reset
C17_Witness ==
    /\ twin.cut = Len(log) + 1
    /\ Len(log) = MaxSteps + MaxDeposits
    /\ twin.future # << >> /\ twin.future[1] # 0
    /\ Len(history) = MaxSteps + 1
    /\ history[2] # history[1] /\ history[3] # history[2]

\* the entries recorded before a call are still there, unchanged, after it
Kept == /\ Len(history') >= Len(history)
        /\ \A i \in 1..Len(history) : history'[i] = history[i]

\* C18 as stated: between construction (or a reset) and the next reset
\* every step that returns lengthens history by one, history[k] is the
\* value k steps after the start, and no operation removes or changes a
\* recorded entry.
C18_Original ==
    [][ (constructed /\ op'.name # "reset") =>
          /\ Kept
          /\ (IsStep(op') /\ err' = "none") => Len(history') = Len(history) + 1
          /\ Len(history') = steps' + 1
          /\ history'[1] = start' ]_vars

\* C18 amended: a step that returns appends exactly one entry, a step that
\* raises and every deposit leave history as it is, and none of them
\* changes a recorded entry; history[k] is the value k steps after the
\* start as long as remove_history has cut nothing off (len(history) =
\* steps + 1).  remove_history itself discards all entries but the latest.
C18_AppendOnly ==
    [][ (constructed /\ op'.name \notin {"reset", "remove_history"}) =>
          /\ Kept
          /\ (IsStep(op') /\ err' = "none") => Len(history') = Len(history) + 1
          /\ (~IsStep(op') \/ err' # "none") => history' = history
          /\ Len(history) = steps + 1 =>
                Len(history') = steps' + 1 /\ history'[1] = start' ]_vars

\* the third step since construction appended history[3] to a history that
\* holds the value after each step, two deposits having been made
C18_Witness ==
    /\ IsStep(op) /\ err = "none"
    /\ steps = 3 /\ Len(history) = 4 /\ ndep = 2
    /\ history[1] = start
    /\ \A i \in 1..3 : history[i + 1] # history[i]
    /\ future # << >>

\* C19: with report_noise_par = 1, integer deposits and data-mode steps
\* produce the same history as the same deposits with expectation-mode
\* steps, and missed_yesterday stays 0.
C19_NoiseOffHasNoEffect ==
    /\ history = twin.history
    /\ missed_yesterday = 0

\* C20: on a Population with report noise whose future slots are
\* non-negative integers, the part of a day's slot that the data-mode step
\* of that day did not add to history (the backlog) is added in full by
\* the next data-mode step, and the new backlog comes from that day's slot
\* alone.
C20_BacklogReportedNextDay ==
    [][ (/\ IsNoisyStep(op')
         /\ missed_yesterday > 0
         /\ \A i \in 1..Len(future) : future[i] >= 0 /\ future[i] % Unit = 0) =>
          /\ err' = "none"
          /\ op'.value >= missed_yesterday
          /\ Last(history') = Last(history) + op'.value
          /\ missed_yesterday' >= 0
          /\ missed_yesterday' <= Slot(future, 1) ]_vars

\* C21: the construction of 'reported' in the reference model, with
\* report_noise=True, a report_noise_par Parameter, report_backlog_par and
\* report_days, is accepted and yields a Population in its initial state.
C21_ReferenceReportedAccepted ==
    (op.name = "__init__" /\ report_noise
        /\ {"report_backlog_par", "report_days"} \subseteq op.keywords) =>
        /\ err = "none" /\ constructed
        /\ history = << 0 >>
        /\ future = << >>
        /\ missed_yesterday = 0

\* a day of the Model is complete and the next has not begun
DayBoundary == model.pc = 1

\* C22: a day of the Model evaluates the transitions, then the connectors,
\* then steps every Population once: between days every Population has one
\* history entry per day, and what an Injector put into 'source' on a day
\* has that same day passed through Adder 'source' -> 'copy' and, read from
\* the slot that Adder just wrote, through Adder 'copy' -> 'total'.
C22_ModelStepOrder ==
    ("pops" \in DOMAIN model /\ DayBoundary) =>
        /\ \A n \in DOMAIN model.pops :
              Len(model.pops[n].history) = model.day + 1
        /\ model.pops["copy"].history = model.pops["source"].history
        /\ model.pops["total"].history = model.pops["source"].history

\* the run is over, and an injection of its first day went down the chain
C22_Witness ==
    /\ "pops" \in DOMAIN model /\ DayBoundary /\ model.day = MaxDays
    /\ model.pops["source"].history[2] > 0
    /\ model.pops["total"].history[2] = model.pops["source"].history[2]

\* the amounts the enabled Injectors have put into history entry k of their
\* target: an injection of day T is recorded by the step of day T
RECURSIVE InjectedBy(_, _, _)
InjectedBy(ts, k, i) ==
    IF i > Len(ts) THEN 0
    ELSE (IF ts[i].enabled /\ ts[i].trigger + 2 <= k THEN ts[i].amount ELSE 0)
            + InjectedBy(ts, k, i + 1)

\* C23: evaluating an enabled Injector on its trigger day adds exactly its
\* amount to future[0] of its target; on any other day, or disabled, it
\* leaves the target as it is; it changes no other Population.  Over a run
\* each enabled Injector fires exactly once: the target's history holds the
\* amounts of the enabled Injectors from their trigger days on, nothing else.
C23_InjectorFiresOnce ==
    /\ [][("pops" \in DOMAIN model /\ Current.kind = "Injector") =>
            LET t == Current
                f == model.pops[t.target].future
                g == model'.pops[t.target].future
            IN  /\ model'.pops[t.target].history = model.pops[t.target].history
                /\ \A n \in DOMAIN model.pops \ {t.target} :
                      model'.pops[n] = model.pops[n]
                /\ IF t.enabled /\ model.day = t.trigger
                   THEN /\ Len(g) = Max(Len(f), 1)
                        /\ g[1] = Slot(f, 1) + t.amount
                        /\ \A i \in 2..Len(g) : g[i] = f[i]
                   ELSE g = f]_vars
    /\ []("pops" \in DOMAIN model =>
            \A k \in 1..Len(model.pops["source"].history) :
                model.pops["source"].history[k] = InjectedBy(model.transitions, k, 1))

\* both Injectors have fired on the same day, the second into the slot the
\* first had filled
C23_Witness ==
    /\ "pops" \in DOMAIN model /\ model.pc = 3
    /\ \A i \in 1..2 : Fires(model, model.transitions[i])
    /\ model.pops["source"].future = << 3 * Unit >>

\* what a step has deposited into Population n: the growth of the sum of
\* its future buffer from ps to qs
Deposit(ps, qs, n) == SumSeq(qs[n].future) - SumSeq(ps[n].future)

\* the deposits into the destinations i..n of a Splitter, added up
RECURSIVE DepositedAcross(_, _, _, _, _)
DepositedAcross(ps, qs, dests, i, n) ==
    IF i > n THEN 0
    ELSE Deposit(ps, qs, dests[i]) + DepositedAcross(ps, qs, dests, i + 1, n)

IsSplitterStep == "pops" \in DOMAIN model /\ Current.kind = "Splitter"

\* the explicit branches of a Splitter step: their deposits add up to
\* source_increment * sum(fractions), at most source_increment
ExplicitBranches(c, ps, qs) ==
    LET inc == LatestIncrement(ps[c.source])
        explicit == DepositedAcross(ps, qs, c.dests, 1, Len(c.fractions))
    IN  /\ \A i \in 1..Len(c.fractions) :
              Deposit(ps, qs, c.dests[i]) * SDen = inc * c.fractions[i]
        /\ explicit * SDen = inc * SumSeq(c.fractions)
        /\ inc >= 0 => explicit <= inc
        /\ \A n \in DOMAIN ps : qs[n].history = ps[n].history

C25_DataStepWithoutNoise ==
    [][(IsStep(op') /\ ~op'.expectations /\ ~report_noise) =>
            LET t == TwinStep(Twin(history, future, missed_yesterday))
            IN  /\ err' = "none"
                /\ history' = t.history
                /\ future' = t.future
                /\ missed_yesterday' = t.missed_yesterday]_vars

\* a data-mode step without report_noise has run on an empty future, after
\* an earlier step had realized a scheduled amount
C25_Witness ==
    /\ IsStep(op) /\ ~op.expectations /\ ~report_noise /\ err = "none"
    /\ op.value = 0 /\ future = << >>
    /\ Len(history) >= 3
    /\ history[Len(history) - 1] # history[Len(history) - 2]

\* C26: missed_yesterday changes only in a data-mode do_time_step on a
\* Population with report_noise, and in reset, which sets it to 0.  An
\* expectation-mode do_time_step, remove_history, scale_history,
\* scale_future and every deposit leave it as it is; an expectation-mode
\* step adds future[0] alone to history, not the backlog.
C26_BacklogFrame ==
    [][/\ missed_yesterday' # missed_yesterday =>
              \/ IsNoisyStep(op') /\ err' = "none"
              \/ op'.name = "reset"
       /\ op'.name = "reset" => missed_yesterday' = 0
       /\ op'.name \in {"remove_history", "scale_history", "scale_future",
                        "update_future_expectation", "update_future_data",
                        "update_future_fast"} =>
              missed_yesterday' = missed_yesterday
       /\ (IsStep(op') /\ op'.expectations) =>
              /\ missed_yesterday' = missed_yesterday
              /\ history' = AppendClamped(history, Slot(future, 1))]_vars

\* a backlog left by a data-mode step is still there after a scaling and
\* an expectation-mode step
C26_Witness ==
    /\ IsStep(op) /\ op.expectations /\ err = "none"
    /\ missed_yesterday > 0
    /\ nscale > 0

\* C27: two deposits among update_future_expectation and update_future_fast
\* leave the same future whichever is made first, and the steps that follow
\* realize the same history.
C27_DepositsCommute ==
    twin.cut = 2 => (future = twin.future /\ history = twin.history)

\* an expectation deposit over two days and a fast deposit were made in
\* both orders, and the first day was realized
C27_Witness ==
    /\ twin.cut = 2 /\ Len(log) = 2
    /\ log[1].name # log[2].name
    /\ \E i \in 1..2 : Len(log[i].delay) = MaxDelayLen
    /\ IsStep(op) /\ op.value # 0
    /\ Len(future) = MaxDelayLen - 1

\* the steps made since the quiet run began, and the length of future then
QuietSteps == Len(history) - Len(twin.history)
QuietLength == Len(twin.future)

\* C28 as stated: with future of length L and no further deposit, future is
\* empty after L expectation-mode steps, and every later step appends a
\* value equal to the previous last value of history.
C28_Original ==
    twin.cut = 1 =>
        /\ Len(future) = Max(QuietLength - QuietSteps, 0)
        /\ QuietSteps > QuietLength =>
              Last(history) = history[Len(history) - 1]

\* C28, amended: every later step appends the previous last value of
\* history, or 0 if that value is negative; from the value such a step
\* appends on, history is constant.
C28_Quiescence ==
    twin.cut = 1 =>
        /\ Len(future) = Max(QuietLength - QuietSteps, 0)
        /\ QuietSteps > QuietLength =>
              Last(history) = Max(history[Len(history) - 1], 0)
        /\ QuietSteps > QuietLength + 1 =>
              Last(history) = history[Len(history) - 1]

\* a future of two slots was stepped away and a step made after it
C28_Witness ==
    /\ twin.cut = 1 /\ QuietLength = MaxDelayLen
    /\ QuietSteps = QuietLength + 1
    /\ \E i \in 1..QuietLength : twin.future[i] # 0
    /\ future = << >>

====
